---- MODULE Spec2Model ----
(***************************************************************************)
(* Model of the fsm crate: the NFA / NFA-e builders, epsilon closure,      *)
(* epsilon elimination, orphan pruning, conversion to an NFA, NFA          *)
(* traversal, and the DFA with its cursor.  State indices are 0-based as   *)
(* in the Rust code; the state vector is a TLA+ sequence, so state i is    *)
(* states[i + 1].                                                          *)
(***************************************************************************)
EXTENDS Integers, Sequences, FiniteSets, TLC

\* ---------------------------------------------------------------- bounds
MaxStates == 3      \* states a builder accepts before the model stops adding
MaxTrans == 2       \* transitions in the whole machine under construction
MaxWord == 2        \* length of the symbol sequences fed to traverse
MaxOps == 1         \* NFA-e operations called on one machine before into_nfa
MaxTransDeep == 3   \* transitions in the whole machine, deeper machines
MaxDfaStates == 3   \* states of the DFA before the model stops adding
MaxDfaTrans == 3    \* map entries in the whole DFA
MaxOtherStates == 2 \* states of a DFA spliced in by extend

\* ------------------------------------------------------------- alphabet
Symbols == {"a", "b"}
Epsilon == "eps"

\* Option<T>: None is the empty sequence, Some(x) is <<x>>.
None == <<>>
Some(x) == <<x>>

Range(seq) == {seq[i] : i \in 1..Len(seq)}

\* ------------------------------------------------ transition.rs
\* RealTransition::new
RealTransition_new(symbol, dest) == [symbol |-> symbol, dest |-> dest]

\* MaybeEpsilonTransition::new_symbol
new_symbol(symbol, dest) == [kind |-> symbol, dest |-> dest]

\* MaybeEpsilonTransition::new_epsilon
new_epsilon(dest) == [kind |-> Epsilon, dest |-> dest]

\* MaybeEpsilonTransition::is_epsilon
is_epsilon(tr) == tr.kind = Epsilon

\* MaybeEpsilonTransition::set_dest
set_dest(tr, dest) == [tr EXCEPT !.dest = dest]

\* impl TryFrom<MaybeEpsilonTransition<L>> for RealTransition<L>:
\* Err (None here) for an epsilon transition, else the symbol and the dest.
RealTransition_try_from(value) ==
    IF value.kind = Epsilon
    THEN None
    ELSE Some([symbol |-> value.kind, dest |-> value.dest])

\* impl From<RealTransition<L>> for MaybeEpsilonTransition<L>
MaybeEpsilonTransition_from(value) == [kind |-> value.symbol, dest |-> value.dest]

\* ------------------------------------------------------ state.rs
\* State::new followed by add_transitions: the state handed to add_state.
State_new(finish, data, transitions) ==
    [data |-> data, transitions |-> transitions, finish |-> finish]

\* State::is_finish
is_finish(st) == st.finish

\* State<S, RealTransition<L>>::next: the destinations of the transitions
\* whose symbol is the given one, in insertion order.
RECURSIVE next_from(_, _, _)
next_from(trs, symbol, i) ==
    IF i > Len(trs) THEN <<>>
    ELSE (IF trs[i].symbol = symbol THEN <<trs[i].dest>> ELSE <<>>)
         \o next_from(trs, symbol, i + 1)

next(st, symbol) == next_from(st.transitions, symbol, 1)

\* impl TryFrom<State<S, MaybeEpsilonTransition<L>>> for State<S, RealTransition<L>>:
\* fails (None) as soon as one transition fails to convert.
State_try_from(value) ==
    IF \E i \in 1..Len(value.transitions) :
           RealTransition_try_from(value.transitions[i]) = None
    THEN None
    ELSE Some([data |-> value.data,
               transitions |-> [i \in 1..Len(value.transitions) |->
                                   RealTransition_try_from(value.transitions[i])[1]],
               finish |-> value.finish])

\* Vec::get
get_state(states, s) ==
    IF s \in 0..(Len(states) - 1) THEN Some(states[s + 1]) ELSE None

\* -------------------------------------------- nfa.rs / nfae.rs: build
\* NFABuilder::build: the first violated condition decides the error.
NFABuilder_build(b) ==
    IF b.start = None THEN [ok |-> FALSE, err |-> "MissingStartIndex"]
    ELSE IF Len(b.states) = 0 THEN [ok |-> FALSE, err |-> "MissingStates"]
    ELSE IF Cardinality({i \in 1..Len(b.states) : is_finish(b.states[i])}) = 0
         THEN [ok |-> FALSE, err |-> "MissingFinish"]
    ELSE IF b.start[1] >= Len(b.states)
         THEN [ok |-> FALSE, err |-> "InvalidStartIndex"]
    ELSE [ok |-> TRUE, err |-> "none"]

\* Faulty variant of NFAeBuilder::build: the bounds check on start is made
\* before the search for a finish state.
NFAeBuilder_build_bounds_first(b) ==
    IF b.start = None THEN [ok |-> FALSE, err |-> "MissingStartIndex"]
    ELSE IF Len(b.states) = 0 THEN [ok |-> FALSE, err |-> "MissingStates"]
    ELSE IF b.start[1] >= Len(b.states)
         THEN [ok |-> FALSE, err |-> "InvalidStartIndex"]
    ELSE IF Cardinality({i \in 1..Len(b.states) : is_finish(b.states[i])}) = 0
         THEN [ok |-> FALSE, err |-> "MissingFinish"]
    ELSE [ok |-> TRUE, err |-> "none"]

\* NFAeBuilder::build
NFAeBuilder_build(b) ==
    IF b.start = None THEN [ok |-> FALSE, err |-> "MissingStartIndex"]
    ELSE IF Len(b.states) = 0 THEN [ok |-> FALSE, err |-> "MissingStates"]
    ELSE IF Cardinality({i \in 1..Len(b.states) : is_finish(b.states[i])}) = 0
         THEN [ok |-> FALSE, err |-> "MissingFinish"]
    ELSE IF b.start[1] >= Len(b.states)
         THEN [ok |-> FALSE, err |-> "InvalidStartIndex"]
    ELSE [ok |-> TRUE, err |-> "none"]

\* ------------------------------------------------ nfae.rs: the NFA-e
\* Marker returned in place of a closure when the recursion cannot end:
\* epsilon_closure has no visited set, so it recurses for ever (until the
\* stack is exhausted) once an epsilon cycle is entered.
StackOverflow == 0 - 1

\* NFAe::epsilon_closure: the state itself, then, for every epsilon
\* transition in order, the closure of its destination (a Vec, with one
\* entry per epsilon path).  A missing state gives the empty list.  A valid
\* state entered at nesting depth Len(states) lies on a path that repeats a
\* state, i.e. on an epsilon cycle: the recursion never returns.
RECURSIVE epsilon_closure_at(_, _, _)
RECURSIVE epsilon_closure_loop(_, _, _, _)
\* Faulty variant of epsilon_closure: the recursion is cut where a state
\* would be entered a second time on a path, as a cycle guard would.
epsilon_closure_at_guarded(states, s, depth) ==
    IF get_state(states, s) = None THEN <<>>
    ELSE IF depth >= Len(states) THEN <<>>
    ELSE <<s>> \o epsilon_closure_loop(states, states[s + 1].transitions, 1, depth)

epsilon_closure_at(states, s, depth) ==
    IF get_state(states, s) = None THEN <<>>
    ELSE IF depth >= Len(states) THEN <<StackOverflow>>
    ELSE <<s>> \o epsilon_closure_loop(states, states[s + 1].transitions, 1, depth)

\* Faulty variant of the loop of epsilon_closure: every transition is
\* followed, not only the epsilon transitions.
RECURSIVE epsilon_closure_loop_any(_, _, _, _)
epsilon_closure_loop_any(states, trs, i, depth) ==
    IF i > Len(trs) THEN <<>>
    ELSE epsilon_closure_at(states, trs[i].dest, depth + 1)
         \o epsilon_closure_loop_any(states, trs, i + 1, depth)

epsilon_closure_loop(states, trs, i, depth) ==
    IF i > Len(trs) THEN <<>>
    ELSE (IF is_epsilon(trs[i])
          THEN epsilon_closure_at(states, trs[i].dest, depth + 1)
          ELSE <<>>)
         \o epsilon_closure_loop(states, trs, i + 1, depth)

\* Faulty variant of epsilon_closure: the state and the destinations of its
\* own epsilon transitions, without recursion.
epsilon_closure_one_hop(states, s) ==
    IF get_state(states, s) = None THEN <<>>
    ELSE <<s>> \o
         SelectSeq([j \in 1..Len(states[s + 1].transitions) |->
                       IF is_epsilon(states[s + 1].transitions[j])
                          /\ get_state(states, states[s + 1].transitions[j].dest) # None
                       THEN states[s + 1].transitions[j].dest
                       ELSE StackOverflow],
                   LAMBDA x : x # StackOverflow)

\* Faulty variant of epsilon_closure: the result is made a set, each state
\* listed once (at its first occurrence).
epsilon_closure_set(states, s) ==
    LET list == epsilon_closure_at(states, s, 0) IN
    SelectSeq([i \in 1..Len(list) |->
                  IF \E k \in 1..(i - 1) : list[k] = list[i]
                  THEN StackOverflow - 1 ELSE list[i]],
              LAMBDA x : x # StackOverflow - 1)

epsilon_closure(states, s) == epsilon_closure_at(states, s, 0)

\* The call never returns.
overflows(closure) == StackOverflow \in Range(closure)

\* Faulty variant of steal: only the first state of the closure, the state
\* itself, is looked at.
steal_own(states, closure, i) ==
    IF i > 1 THEN <<>>
    ELSE SelectSeq(states[closure[i] + 1].transitions, LAMBDA tr : ~is_epsilon(tr))

\* The non-epsilon transitions of the states of a closure, in closure order
\* (the `transitions` accumulator of epsilon_simplify).
RECURSIVE steal(_, _, _)
steal(states, closure, i) ==
    IF i > Len(closure) THEN <<>>
    ELSE SelectSeq(states[closure[i] + 1].transitions, LAMBDA tr : ~is_epsilon(tr))
         \o steal(states, closure, i + 1)

\* Faulty variant of epsilon_simplify: the stolen transitions are taken
\* away from the states of the closure they come from.
epsilon_simplify_move(states, s) ==
    LET closure == epsilon_closure(states, s) IN
    IF closure = <<>> THEN states
    ELSE LET transitions == steal(states, closure, 1)
             fin == is_finish(states[s + 1])
                    \/ \E i \in 1..Len(closure) : is_finish(states[closure[i] + 1])
         IN [i \in 1..Len(states) |->
                IF i = s + 1
                THEN [states[i] EXCEPT !.finish = fin,
                                       !.transitions =
                                           SelectSeq(@, LAMBDA tr : ~is_epsilon(tr))
                                           \o transitions]
                ELSE IF i - 1 \in Range(closure)
                THEN [states[i] EXCEPT !.transitions =
                                           SelectSeq(@, LAMBDA tr : is_epsilon(tr))]
                ELSE states[i]]

\* Faulty variant of epsilon_simplify: the state keeps its epsilon
\* transitions next to the stolen ones.
epsilon_simplify_keep_epsilon(states, s) ==
    LET closure == epsilon_closure(states, s) IN
    IF closure = <<>> THEN states
    ELSE LET transitions == steal(states, closure, 1)
             fin == is_finish(states[s + 1])
                    \/ \E i \in 1..Len(closure) : is_finish(states[closure[i] + 1])
         IN [states EXCEPT ![s + 1] =
                [@ EXCEPT !.finish = fin, !.transitions = @ \o transitions]]

\* Faulty variant of epsilon_simplify: the finish flag is left as it was.
epsilon_simplify_keep_finish(states, s) ==
    LET closure == epsilon_closure(states, s) IN
    IF closure = <<>> THEN states
    ELSE LET transitions == steal(states, closure, 1)
         IN [states EXCEPT ![s + 1] =
                [@ EXCEPT !.transitions =
                              SelectSeq(@, LAMBDA tr : ~is_epsilon(tr)) \o transitions]]

\* NFAe::epsilon_simplify on a state vector (the closure must return).
epsilon_simplify(states, s) ==
    LET closure == epsilon_closure(states, s) IN
    IF closure = <<>> THEN states
    ELSE LET transitions == steal(states, closure, 1)
             fin == is_finish(states[s + 1])
                    \/ \E i \in 1..Len(closure) : is_finish(states[closure[i] + 1])
         IN [states EXCEPT ![s + 1] =
                [@ EXCEPT !.finish = fin,
                          !.transitions =
                              SelectSeq(@, LAMBDA tr : ~is_epsilon(tr)) \o transitions]]

\* NFAe::epsilon_simplify_all: epsilon_simplify for i in 0..len, in place.
RECURSIVE epsilon_simplify_from(_, _)
epsilon_simplify_from(states, i) ==
    IF i >= Len(states) THEN [status |-> "ok", states |-> states]
    ELSE IF overflows(epsilon_closure(states, i))
         THEN [status |-> "overflow", states |-> states]
    ELSE epsilon_simplify_from(epsilon_simplify(states, i), i + 1)

epsilon_simplify_all(states) == epsilon_simplify_from(states, 0)

\* Faulty variant of reachable_states: every index counts as referenced.
reachable_states_all(m) == 0..(Len(m.states) - 1)

\* NFAe::remove_orphan_states, first loop: start and every destination.
reachable_states(m) ==
    {m.start} \cup UNION {{m.states[i].transitions[j].dest :
                               j \in 1..Len(m.states[i].transitions)} :
                          i \in 1..Len(m.states)}

\* Faulty variant of reassign_map: the kept states keep their old index.
reassign_map_identity(m) ==
    [i \in (reachable_states(m) \cap (0..(Len(m.states) - 1))) |-> i]

\* reassign_map: old index -> number of kept states before it.
reassign_map(m) ==
    [i \in (reachable_states(m) \cap (0..(Len(m.states) - 1))) |->
        Cardinality({j \in reachable_states(m) : j < i})]

\* The kept states, in their old order (new_states).
RECURSIVE new_states(_, _)
new_states(m, i) ==
    IF i >= Len(m.states) THEN <<>>
    ELSE (IF i \in reachable_states(m) THEN <<m.states[i + 1]>> ELSE <<>>)
         \o new_states(m, i + 1)

\* Faulty variant of remove_orphan_states: a destination without entry in
\* reassign_map is left as it is instead of failing.
remove_orphan_states_lenient(m) ==
    LET kept == new_states(m, 0)
        map == reassign_map(m)
    IN IF \E i \in 1..Len(m.states) : \E j \in 1..Len(m.states[i].transitions) :
              is_epsilon(m.states[i].transitions[j])
       THEN [status |-> "panic", states |-> m.states, start |-> m.start]
       ELSE [status |-> "ok",
             states |-> [i \in 1..Len(kept) |->
                            [kept[i] EXCEPT !.transitions =
                                [j \in 1..Len(kept[i].transitions) |->
                                    IF kept[i].transitions[j].dest \in DOMAIN map
                                    THEN set_dest(kept[i].transitions[j],
                                                  map[kept[i].transitions[j].dest])
                                    ELSE kept[i].transitions[j]]]],
             start |-> m.start]

\* NFAe::remove_orphan_states.  Panics on an epsilon transition (assert!)
\* and on a destination without entry in reassign_map (unwrap).  self.start
\* is not assigned anywhere in the function.
remove_orphan_states(m) ==
    LET kept == new_states(m, 0)
        map == reassign_map(m)
    IN IF \E i \in 1..Len(m.states) : \E j \in 1..Len(m.states[i].transitions) :
              is_epsilon(m.states[i].transitions[j])
       THEN [status |-> "panic", states |-> m.states, start |-> m.start]
       ELSE IF \E i \in 1..Len(kept) : \E j \in 1..Len(kept[i].transitions) :
                   kept[i].transitions[j].dest \notin DOMAIN map
       THEN [status |-> "panic", states |-> kept, start |-> m.start]
       ELSE [status |-> "ok",
             states |-> [i \in 1..Len(kept) |->
                            [kept[i] EXCEPT !.transitions =
                                [j \in 1..Len(kept[i].transitions) |->
                                    set_dest(kept[i].transitions[j],
                                             map[kept[i].transitions[j].dest])]]],
             start |-> m.start]

\* NFAe::into_nfa: simplify, prune, convert every state, keep self.start.
into_nfa(m) ==
    LET simplified == epsilon_simplify_all(m.states) IN
    IF simplified.status # "ok"
    THEN [status |-> simplified.status, states |-> <<>>, start |-> m.start]
    ELSE LET pruned == remove_orphan_states([states |-> simplified.states,
                                             start |-> m.start]) IN
         IF pruned.status # "ok"
         THEN [status |-> pruned.status, states |-> <<>>, start |-> m.start]
         ELSE IF \E i \in 1..Len(pruned.states) : State_try_from(pruned.states[i]) = None
         THEN [status |-> "panic", states |-> <<>>, start |-> m.start]
         ELSE [status |-> "ok",
               states |-> [i \in 1..Len(pruned.states) |->
                              State_try_from(pruned.states[i])[1]],
               start |-> pruned.start]

\* ---------------------------------------------------- nfa.rs: traversal
\* NFA::traverse_from: the indices of the end states, depth first.
RECURSIVE traverse_from(_, _, _)
RECURSIVE traverse_loop(_, _, _, _)
traverse_from(nfa, from, symbols) ==
    IF get_state(nfa.states, from) = None THEN <<>>
    ELSE IF symbols = <<>> THEN <<from>>
    ELSE traverse_loop(nfa, next(nfa.states[from + 1], Head(symbols)), 1, Tail(symbols))

\* Faulty variant of the loop of traverse_from: a branch that yields nothing
\* ends the traversal.
traverse_loop_abort(nfa, next_indices, i, symbols) ==
    IF i > Len(next_indices) THEN <<>>
    ELSE IF traverse_from(nfa, next_indices[i], symbols) = <<>> THEN <<>>
    ELSE traverse_from(nfa, next_indices[i], symbols)
         \o traverse_loop(nfa, next_indices, i + 1, symbols)

traverse_loop(nfa, next_indices, i, symbols) ==
    IF i > Len(next_indices) THEN <<>>
    ELSE traverse_from(nfa, next_indices[i], symbols)
         \o traverse_loop(nfa, next_indices, i + 1, symbols)

\* NFA::traverse
traverse(nfa, symbols) == traverse_from(nfa, nfa.start, symbols)

\* ------------------------------------------------------ lib.rs: the DFA
\* HashMap::new
HashMap_new == [l \in {} |-> 0]

\* Faulty variant of insert: an existing entry is kept.
insert_absent(hm, k, v) ==
    [x \in DOMAIN hm \cup {k} |-> IF x \in DOMAIN hm THEN hm[x] ELSE v]

\* HashMap::insert: the entry of k is created or overwritten.
insert(hm, k, v) == [x \in DOMAIN hm \cup {k} |-> IF x = k THEN v ELSE hm[x]]

\* HashMap::get
get(hm, k) == IF k \in DOMAIN hm THEN Some(hm[k]) ELSE None

\* DFA::new: one state, the start state, without transitions.
DFA_new(start) == <<[value |-> start, transitions |-> HashMap_new]>>

\* DFA::get_state_value
get_state_value(d, index) == IF index < Len(d) THEN Some(d[index + 1].value) ELSE None

\* DFA::get_state_transitions_unchecked: get_unchecked(index), defined for
\* index < len only.
get_state_transitions_unchecked(d, index) == d[index + 1].transitions

\* DFA::get_state_mut: the index of the cursor, None out of range.
get_state_mut(d, index) == IF index >= Len(d) THEN None ELSE Some(index)

\* DFA::add_state: push a state without transitions.
DFA_add_state(d, state) == Append(d, [value |-> state, transitions |-> HashMap_new])

\* MutState::set_transition on the cursor at `index`.
set_transition(d, index, transition, to) ==
    [d EXCEPT ![index + 1].transitions = insert(@, transition, to)]

\* MutState::add_self_loop
add_self_loop(d, index, transition) == set_transition(d, index, transition, index)

\* MutState::add_state: new state, then the transition to it.
MutState_add_state(d, index, transition, state) ==
    set_transition(DFA_add_state(d, state), index, transition, Len(d))

\* Faulty variant of extend: the destinations of other are not shifted.
extend_unshifted(d, index, transition, other) ==
    set_transition(d \o other, index, transition, Len(d))

\* MutState::extend: append the states of other with every destination
\* shifted by the former state count, then the transition to that count.
extend(d, index, transition, other) ==
    LET num == Len(d) IN
    set_transition(
        d \o [i \in 1..Len(other) |->
                 [other[i] EXCEPT !.transitions = [l \in DOMAIN @ |-> @[l] + num]]],
        index, transition, num)

\* Faulty variant of State::next: without entry the view stays where it is.
State_next_stay(d, index, transition) ==
    IF transition \in DOMAIN get_state_transitions_unchecked(d, index)
    THEN Some(get_state_transitions_unchecked(d, index)[transition])
    ELSE Some(index)

\* State::next (Transition for State), for index < len.
State_next(d, index, transition) ==
    get(get_state_transitions_unchecked(d, index), transition)

\* DFA::traverse from the view at `curr`: ub is set when next reads the
\* transitions of a state outside the vector (get_unchecked out of bounds).
RECURSIVE DFA_traverse_from(_, _, _)
DFA_traverse_from(d, curr, inputs) ==
    IF inputs = <<>> THEN [ub |-> FALSE, state |-> Some(curr)]
    ELSE IF curr >= Len(d) THEN [ub |-> TRUE, state |-> None]
    ELSE IF State_next(d, curr, Head(inputs)) = None
         THEN [ub |-> FALSE, state |-> None]
    ELSE DFA_traverse_from(d, State_next(d, curr, Head(inputs))[1], Tail(inputs))

\* DFA::traverse: from get_start(), index 0.
DFA_traverse(d, inputs) == DFA_traverse_from(d, 0, inputs)

\* The number of map entries of the DFA.
RECURSIVE entry_count(_, _)
entry_count(d, i) ==
    IF i > Len(d) THEN 0
    ELSE Cardinality(DOMAIN d[i].transitions) + entry_count(d, i + 1)

\* ------------------------------------------------------ the program
VARIABLES
    pc,        \* where the caller is: "NFAeBuilder", "NFABuilder" (building),
               \* "err" (build failed), "nfae" (holds an NFA-e), "nfa" (holds
               \* an NFA), "panic" (unwrap / assert! failed), "overflow"
    builder,   \* the builder: [start |-> Option<usize>, states |-> Vec<State>]
    err,       \* the NFABuilderError returned by build, "none" otherwise
    nfae,      \* the NFA-e: [states, start]
    nfa,       \* the NFA: [states, start]
    orig,      \* history: the NFA-e as build returned it
    pre,       \* history: the NFA-e before the last operation on it
    last,      \* history: the last operation called
    ops,       \* history: operations called on the NFA-e
    closure,   \* the last epsilon_closure call: [s |-> argument, states |-> result]
    asked,     \* history: the argument of the last set_start call and the
               \* arguments of the add_state calls, in call order
    simplified, \* history: the arguments of the epsilon_simplify calls, in
               \* call order
    traversal, \* the last NFA::traverse_from call: [from, symbols, states]
    dfa,       \* the DFA: Vec<(S, HashMap<L, usize>)>, <<>> while there is none
    cursor,    \* the MutState alive: Some(index), None when there is none
    dcall,     \* history: the last call on the DFA or its cursor, with its
               \* arguments and the entry that HashMap::insert replaced
    dresult    \* the last DFA::traverse call and what it returned

vars == <<pc, builder, err, nfae, nfa, orig, pre, last, ops, closure,
          asked, simplified, traversal, dfa, cursor, dcall, dresult>>

\* The variables of the DFA.
dfaVars == <<dfa, cursor, dcall, dresult>>

NoTraversal == [from |-> 0, symbols |-> <<>>, states |-> <<>>]

NoCall == [op |-> "none", index |-> 0, transition |-> "", to |-> 0,
           old |-> None, other |-> <<>>]

NoResult == [inputs |-> <<>>, ub |-> FALSE, state |-> None, value |-> None]

NoClosure == [s |-> 0, states |-> <<>>]

Empty == [states |-> <<>>, start |-> 0]

\* Inputs: the transitions a caller may put on a state.
Dests == 0..(MaxStates - 1)
MaybeEpsilonTransitions ==
    {new_epsilon(d) : d \in Dests} \cup {new_symbol(l, d) : l \in Symbols, d \in Dests}
RealTransitions == {RealTransition_new(l, d) : l \in Symbols, d \in Dests}
SeqsUpTo(S, n) == UNION {[1..k -> S] : k \in 0..n}

\* The symbol sequences fed to traverse.
Words == SeqsUpTo(Symbols, MaxWord)

RECURSIVE transition_count(_, _)
transition_count(states, i) ==
    IF i > Len(states) THEN 0
    ELSE Len(states[i].transitions) + transition_count(states, i + 1)

Init ==
    /\ pc \in {"NFAeBuilder", "NFABuilder"}
    /\ builder = [start |-> None, states |-> <<>>]     \* Default::default()
    /\ err = "none"
    /\ nfae = Empty
    /\ nfa = Empty
    /\ orig = Empty
    /\ pre = Empty
    /\ last = "default"
    /\ ops = 0
    /\ closure = NoClosure
    /\ asked = [start |-> None, states |-> <<>>]
    /\ simplified = <<>>
    /\ traversal = NoTraversal
    /\ dfa = <<>>
    /\ cursor = None
    /\ dcall = NoCall
    /\ dresult = NoResult

\* NFAeBuilder::add_state / NFABuilder::add_state: push.  The payload of
\* the state is the number of states added before it.
add_state(b, state) == [b EXCEPT !.states = Append(@, state)]

\* Faulty variant of set_start: the first write wins.
set_start_once(b, start) == IF b.start = None THEN [b EXCEPT !.start = Some(start)] ELSE b

\* NFAeBuilder::set_start / NFABuilder::set_start
set_start(b, start) == [b EXCEPT !.start = Some(start)]

\* builder.add_state(state) with the transitions of the state drawn from
\* `transitions`, the whole machine holding at most `limit` transitions.
NFAeBuilderAddStateOf(transitions, limit) ==
    /\ pc = "NFAeBuilder"
    /\ Len(builder.states) < MaxStates
    /\ \E finish \in BOOLEAN :
       \E trs \in SeqsUpTo(transitions, limit - transition_count(builder.states, 1)) :
          /\ builder' = add_state(builder, State_new(finish, Len(builder.states), trs))
          /\ asked' = [asked EXCEPT !.states =
                          @ \o <<State_new(finish, Len(builder.states), trs)>>]
    /\ UNCHANGED <<pc, err, nfae, nfa, orig, pre, last, ops, closure>>
    /\ UNCHANGED <<simplified, traversal, dfaVars>>

NFAeBuilderAddState == NFAeBuilderAddStateOf(MaybeEpsilonTransitions, MaxTrans)

NFAeBuilderSetStart ==
    /\ pc = "NFAeBuilder"
    /\ \E start \in 0..MaxStates :
          /\ builder' = set_start(builder, start)
          /\ asked' = [asked EXCEPT !.start = <<start>>]
    /\ UNCHANGED <<pc, err, nfae, nfa, orig, pre, last, ops, closure>>
    /\ UNCHANGED <<simplified, traversal, dfaVars>>

NFAeBuilderBuild ==
    /\ pc = "NFAeBuilder"
    /\ LET r == NFAeBuilder_build(builder) IN
       IF r.ok
       THEN /\ pc' = "nfae"
            /\ nfae' = [states |-> builder.states, start |-> builder.start[1]]
            /\ orig' = nfae'
            /\ pre' = nfae'
            /\ err' = err
       ELSE /\ pc' = "err"
            /\ err' = r.err
            /\ UNCHANGED <<nfae, orig, pre>>
    /\ last' = "build"
    /\ UNCHANGED <<builder, nfa, ops, closure>>
    /\ UNCHANGED <<asked, simplified, traversal, dfaVars>>

NFABuilderAddState ==
    /\ pc = "NFABuilder"
    /\ Len(builder.states) < MaxStates
    /\ \E finish \in BOOLEAN :
       \E trs \in SeqsUpTo(RealTransitions,
                           MaxTrans - transition_count(builder.states, 1)) :
          /\ builder' = add_state(builder, State_new(finish, Len(builder.states), trs))
          /\ asked' = [asked EXCEPT !.states =
                          @ \o <<State_new(finish, Len(builder.states), trs)>>]
    /\ UNCHANGED <<pc, err, nfae, nfa, orig, pre, last, ops, closure>>
    /\ UNCHANGED <<simplified, traversal, dfaVars>>

NFABuilderSetStart ==
    /\ pc = "NFABuilder"
    /\ \E start \in 0..MaxStates :
          /\ builder' = set_start(builder, start)
          /\ asked' = [asked EXCEPT !.start = <<start>>]
    /\ UNCHANGED <<pc, err, nfae, nfa, orig, pre, last, ops, closure>>
    /\ UNCHANGED <<simplified, traversal, dfaVars>>

NFABuilderBuild ==
    /\ pc = "NFABuilder"
    /\ LET r == NFABuilder_build(builder) IN
       IF r.ok
       THEN /\ pc' = "nfa"
            /\ nfa' = [states |-> builder.states, start |-> builder.start[1]]
            /\ err' = err
       ELSE /\ pc' = "err"
            /\ err' = r.err
            /\ nfa' = nfa
    /\ last' = "build"
    /\ UNCHANGED <<builder, nfae, orig, pre, ops, closure>>
    /\ UNCHANGED <<asked, simplified, traversal, dfaVars>>

\* nfae.epsilon_closure(s), s any index (one past the end included); a
\* read-only call
EpsilonClosure ==
    /\ pc = "nfae"
    /\ ops < MaxOps
    /\ \E s \in 0..Len(nfae.states) :
          LET r == epsilon_closure(nfae.states, s) IN
          IF overflows(r)
          THEN pc' = "overflow" /\ closure' = NoClosure
          ELSE pc' = pc /\ closure' = [s |-> s, states |-> r]
    /\ pre' = nfae
    /\ last' = "epsilon_closure"
    /\ ops' = ops + 1
    /\ UNCHANGED <<builder, err, nfae, nfa, orig>>
    /\ UNCHANGED <<asked, simplified, traversal, dfaVars>>

\* nfae.epsilon_simplify(s), s any index (one past the end included)
EpsilonSimplify ==
    /\ pc = "nfae"
    /\ ops < MaxOps
    /\ \E s \in 0..Len(nfae.states) :
          /\ IF overflows(epsilon_closure(nfae.states, s))
             THEN pc' = "overflow" /\ nfae' = nfae
             ELSE pc' = pc /\ nfae' = [nfae EXCEPT !.states = epsilon_simplify(@, s)]
          /\ simplified' = Append(simplified, s)
    /\ pre' = nfae
    /\ last' = "epsilon_simplify"
    /\ ops' = ops + 1
    /\ closure' = NoClosure
    /\ UNCHANGED <<builder, err, nfa, orig>>
    /\ UNCHANGED <<asked, traversal, dfaVars>>

\* nfae.epsilon_simplify_all()
EpsilonSimplifyAll ==
    /\ pc = "nfae"
    /\ ops < MaxOps
    /\ LET r == epsilon_simplify_all(nfae.states) IN
       IF r.status = "ok"
       THEN pc' = pc /\ nfae' = [nfae EXCEPT !.states = r.states]
       ELSE pc' = r.status /\ nfae' = nfae
    /\ pre' = nfae
    /\ last' = "epsilon_simplify_all"
    /\ ops' = ops + 1
    /\ closure' = NoClosure
    /\ UNCHANGED <<builder, err, nfa, orig>>
    /\ UNCHANGED <<asked, simplified, traversal, dfaVars>>

\* nfae.remove_orphan_states()
RemoveOrphanStates ==
    /\ pc = "nfae"
    /\ ops < MaxOps
    /\ LET r == remove_orphan_states(nfae) IN
       IF r.status = "ok"
       THEN pc' = pc /\ nfae' = [states |-> r.states, start |-> r.start]
       ELSE pc' = r.status /\ nfae' = nfae
    /\ pre' = nfae
    /\ last' = "remove_orphan_states"
    /\ ops' = ops + 1
    /\ closure' = NoClosure
    /\ UNCHANGED <<builder, err, nfa, orig>>
    /\ UNCHANGED <<asked, simplified, traversal, dfaVars>>

\* nfae.into_nfa() / NFA::from(nfae): consumes the NFA-e
IntoNfa ==
    /\ pc = "nfae"
    /\ LET r == into_nfa(nfae) IN
       IF r.status = "ok"
       THEN pc' = "nfa" /\ nfa' = [states |-> r.states, start |-> r.start]
       ELSE pc' = r.status /\ nfa' = nfa
    /\ pre' = nfae
    /\ last' = "into_nfa"
    /\ closure' = NoClosure
    /\ UNCHANGED <<builder, err, nfae, orig, ops>>
    /\ UNCHANGED <<asked, simplified, traversal, dfaVars>>

Next ==
    \/ NFAeBuilderAddState
    \/ NFAeBuilderSetStart
    \/ NFAeBuilderBuild
    \/ NFABuilderAddState
    \/ NFABuilderSetStart
    \/ NFABuilderBuild
    \/ EpsilonClosure
    \/ EpsilonSimplify
    \/ EpsilonSimplifyAll
    \/ RemoveOrphanStates
    \/ IntoNfa

Spec == Init /\ [][Next]_vars

\* The same program over a one-symbol alphabet, with room for one more
\* transition: machines in which a state reaches, through an earlier state
\* and two epsilon hops, a state that has a symbol transition.
DeepSymbol == CHOOSE l \in Symbols : TRUE
DeepTransitions ==
    {new_epsilon(d) : d \in Dests} \cup {new_symbol(DeepSymbol, d) : d \in Dests}

InitDeep == Init /\ pc = "NFAeBuilder"

NFAeBuilderAddStateDeep == NFAeBuilderAddStateOf(DeepTransitions, MaxTransDeep)

NextDeep ==
    \/ NFAeBuilderAddStateDeep
    \/ NFAeBuilderSetStart
    \/ NFAeBuilderBuild
    \/ EpsilonSimplifyAll

SpecDeep == InitDeep /\ [][NextDeep]_vars

\* The caller simplifies the states one by one, each index once, in an
\* order of its choice, on machines of up to MaxTransDeep transitions.
EpsilonSimplifyOnce ==
    /\ pc = "nfae"
    /\ \E s \in (0..(Len(nfae.states) - 1)) \ Range(simplified) :
          /\ IF overflows(epsilon_closure(nfae.states, s))
             THEN pc' = "overflow" /\ nfae' = nfae
             ELSE pc' = pc /\ nfae' = [nfae EXCEPT !.states = epsilon_simplify(@, s)]
          /\ simplified' = Append(simplified, s)
    /\ pre' = nfae
    /\ last' = "epsilon_simplify"
    /\ ops' = ops + 1
    /\ closure' = NoClosure
    /\ UNCHANGED <<builder, err, nfa, orig>>
    /\ UNCHANGED <<asked, traversal, dfaVars>>

NextOrder ==
    \/ NFAeBuilderAddStateDeep
    \/ NFAeBuilderSetStart
    \/ NFAeBuilderBuild
    \/ EpsilonSimplifyOnce

SpecOrder == InitDeep /\ [][NextOrder]_vars

\* The NFA on its own: machines of up to MaxTransDeep transitions built
\* with NFABuilder, then traversed.
InitTraverse == Init /\ pc = "NFABuilder"

NFABuilderAddStateDeep ==
    /\ pc = "NFABuilder"
    /\ Len(builder.states) < MaxStates
    /\ \E finish \in BOOLEAN :
       \E trs \in SeqsUpTo(RealTransitions,
                           MaxTransDeep - transition_count(builder.states, 1)) :
          /\ builder' = add_state(builder, State_new(finish, Len(builder.states), trs))
          /\ asked' = [asked EXCEPT !.states =
                          @ \o <<State_new(finish, Len(builder.states), trs)>>]
    /\ UNCHANGED <<pc, err, nfae, nfa, orig, pre, last, ops, closure>>
    /\ UNCHANGED <<simplified, traversal, dfaVars>>

\* nfa.traverse_from(from, symbols), from any index (one past the end
\* included), once on the NFA as built; nfa.traverse(symbols) is the call
\* with from = nfa.start.
TraverseFrom ==
    /\ pc = "nfa"
    /\ last = "build"
    /\ \E from \in 0..Len(nfa.states) : \E symbols \in Words :
          traversal' = [from |-> from, symbols |-> symbols,
                        states |-> traverse_from(nfa, from, symbols)]
    /\ last' = "traverse_from"
    /\ UNCHANGED <<pc, builder, err, nfae, nfa, orig, pre, ops, closure, asked>>
    /\ UNCHANGED <<simplified, dfaVars>>

NextTraverse ==
    \/ NFABuilderAddStateDeep
    \/ NFABuilderSetStart
    \/ NFABuilderBuild
    \/ TraverseFrom

SpecTraverse == InitTraverse /\ [][NextTraverse]_vars

\* The DFA.  The payload of a state is the number of states the DFA had
\* when the state was added; the states of a DFA spliced in by extend have
\* negative payloads, so that a payload identifies a state.
nfaVars == <<builder, err, nfae, nfa, orig, pre, last, ops, closure, asked,
            simplified, traversal>>

InitDFA ==
    /\ pc = "dfa"
    /\ dfa = DFA_new(0)
    /\ cursor = None
    /\ dcall = NoCall
    /\ dresult = NoResult
    /\ builder = [start |-> None, states |-> <<>>]
    /\ err = "none"
    /\ nfae = Empty
    /\ nfa = Empty
    /\ orig = Empty
    /\ pre = Empty
    /\ last = "default"
    /\ ops = 0
    /\ closure = NoClosure
    /\ asked = [start |-> None, states |-> <<>>]
    /\ simplified = <<>>
    /\ traversal = NoTraversal

\* The DFAs a caller may hand to extend: up to MaxOtherStates states, every
\* destination in range.
OtherMaps(n) == UNION {[D -> 0..(n - 1)] : D \in SUBSET Symbols}
Others ==
    UNION {{[i \in 1..n |-> [value |-> 0 - i, transitions |-> f[i]]] :
               f \in [1..n -> OtherMaps(n)]} : n \in 1..MaxOtherStates}

\* dfa.get_start_mut(); the view a traversal returned is gone by now
DfaGetStartMut ==
    /\ pc = "dfa"
    /\ cursor' = Some(0)
    /\ dcall' = [NoCall EXCEPT !.op = "get_state_mut"]
    /\ dresult' = NoResult
    /\ UNCHANGED <<pc, dfa, nfaVars>>

\* dfa.get_state_mut(index), index any usize
DfaGetStateMut ==
    /\ pc = "dfa"
    /\ \E index \in 0..MaxDfaStates : cursor' = get_state_mut(dfa, index)
    /\ dcall' = [NoCall EXCEPT !.op = "get_state_mut"]
    /\ dresult' = NoResult
    /\ UNCHANGED <<pc, dfa, nfaVars>>

\* dfa.add_state(payload): returns the cursor at the new state
DfaAddState ==
    /\ pc = "dfa"
    /\ Len(dfa) < MaxDfaStates
    /\ dfa' = DFA_add_state(dfa, Len(dfa))
    /\ cursor' = Some(Len(dfa))
    /\ dcall' = [NoCall EXCEPT !.op = "DFA_add_state", !.index = Len(dfa)]
    /\ dresult' = NoResult
    /\ UNCHANGED <<pc, nfaVars>>

\* cursor.set_transition(transition, to), to any usize
DfaSetTransition ==
    /\ pc = "dfa"
    /\ cursor # None
    /\ \E transition \in Symbols : \E to \in 0..MaxDfaStates :
          /\ entry_count(set_transition(dfa, cursor[1], transition, to), 1) <= MaxDfaTrans
          /\ dfa' = set_transition(dfa, cursor[1], transition, to)
          /\ dcall' = [op |-> "set_transition", index |-> cursor[1],
                       transition |-> transition, to |-> to,
                       old |-> get(dfa[cursor[1] + 1].transitions, transition),
                       other |-> <<>>]
    /\ dresult' = NoResult
    /\ UNCHANGED <<pc, cursor, nfaVars>>

\* cursor.add_self_loop(transition)
DfaAddSelfLoop ==
    /\ pc = "dfa"
    /\ cursor # None
    /\ \E transition \in Symbols :
          /\ entry_count(add_self_loop(dfa, cursor[1], transition), 1) <= MaxDfaTrans
          /\ dfa' = add_self_loop(dfa, cursor[1], transition)
          /\ dcall' = [op |-> "add_self_loop", index |-> cursor[1],
                       transition |-> transition, to |-> cursor[1],
                       old |-> get(dfa[cursor[1] + 1].transitions, transition),
                       other |-> <<>>]
    /\ dresult' = NoResult
    /\ UNCHANGED <<pc, cursor, nfaVars>>

\* cursor.add_state(transition, payload): returns the cursor at the new state
MutStateAddState ==
    /\ pc = "dfa"
    /\ cursor # None
    /\ Len(dfa) < MaxDfaStates
    /\ \E transition \in Symbols :
          /\ entry_count(MutState_add_state(dfa, cursor[1], transition, Len(dfa)), 1)
                <= MaxDfaTrans
          /\ dfa' = MutState_add_state(dfa, cursor[1], transition, Len(dfa))
          /\ dcall' = [op |-> "MutState_add_state", index |-> cursor[1],
                       transition |-> transition, to |-> Len(dfa),
                       old |-> get(dfa[cursor[1] + 1].transitions, transition),
                       other |-> <<>>]
    /\ cursor' = Some(Len(dfa))
    /\ dresult' = NoResult
    /\ UNCHANGED <<pc, nfaVars>>

\* cursor.extend(transition, other): consumes the cursor and other
DfaExtend ==
    /\ pc = "dfa"
    /\ cursor # None
    /\ \E transition \in Symbols : \E other \in Others :
          /\ Len(dfa) + Len(other) <= MaxDfaStates
          /\ entry_count(extend(dfa, cursor[1], transition, other), 1) <= MaxDfaTrans
          /\ dfa' = extend(dfa, cursor[1], transition, other)
          /\ dcall' = [op |-> "extend", index |-> cursor[1],
                       transition |-> transition, to |-> Len(dfa),
                       old |-> get(dfa[cursor[1] + 1].transitions, transition),
                       other |-> other]
    /\ cursor' = None
    /\ dresult' = NoResult
    /\ UNCHANGED <<pc, nfaVars>>

\* dfa.traverse(inputs).map(|x| x.value()), with no cursor alive.  When
\* next reads outside the vector the behaviour is undefined: the call may
\* crash or return anything.
DfaTraverse ==
    /\ pc = "dfa"
    /\ \E inputs \in Words :
          LET r == DFA_traverse(dfa, inputs) IN
          IF r.ub
          THEN /\ pc' = "undefined"
               /\ \E state \in {None} \cup {Some(i) : i \in 0..MaxDfaStates} :
                     dresult' = [inputs |-> inputs, ub |-> TRUE,
                                 state |-> state, value |-> None]
          ELSE /\ pc' = IF r.state # None /\ get_state_value(dfa, r.state[1]) = None
                        THEN "panic" ELSE "dfa"
               /\ dresult' = [inputs |-> inputs, ub |-> FALSE, state |-> r.state,
                              value |-> IF r.state = None THEN None
                                        ELSE get_state_value(dfa, r.state[1])]
    /\ cursor' = None
    /\ dcall' = [NoCall EXCEPT !.op = "traverse"]
    /\ UNCHANGED <<dfa, nfaVars>>

NextDFA ==
    \/ DfaGetStartMut
    \/ DfaGetStateMut
    \/ DfaAddState
    \/ DfaSetTransition
    \/ DfaAddSelfLoop
    \/ MutStateAddState
    \/ DfaExtend
    \/ DfaTraverse

SpecDFA == InitDFA /\ [][NextDFA]_vars

\* ------------------------------------------- vocabulary of the claims
\* The valid state indices of a machine.
Indices(m) == 0..(Len(m.states) - 1)

\* The transitions of state i of machine m, as a set of positions.
TrPos(m, i) == 1..Len(m.states[i + 1].transitions)

\* Every transition destination is a valid state index.
WellFormed(m) ==
    \A i \in Indices(m) : \A j \in TrPos(m, i) :
        m.states[i + 1].transitions[j].dest \in Indices(m)

\* No transition is an epsilon transition.
EpsilonFree(m) ==
    \A i \in Indices(m) : \A j \in TrPos(m, i) :
        m.states[i + 1].transitions[j].kind # Epsilon

\* The existing states one epsilon transition away from a state of S.
EpsSucc(m, S) ==
    {d \in Indices(m) : \E i \in S \cap Indices(m) : \E j \in TrPos(m, i) :
        /\ m.states[i + 1].transitions[j].kind = Epsilon
        /\ m.states[i + 1].transitions[j].dest = d}

\* The least set containing S and closed under epsilon transitions.
RECURSIVE EpsClosed(_, _)
EpsClosed(m, S) ==
    IF EpsSucc(m, S) \subseteq S THEN S ELSE EpsClosed(m, S \cup EpsSucc(m, S))

\* The states reachable from s by zero or more epsilon transitions.
EpsReach(m, s) == EpsClosed(m, {s} \cap Indices(m))

\* No state reaches itself by one or more epsilon transitions.
EpsAcyclic(m) == \A s \in Indices(m) : s \notin EpsClosed(m, EpsSucc(m, {s}))

\* The number of epsilon paths from s to t (the empty path when s = t),
\* on an epsilon-acyclic machine.
RECURSIVE EpsPaths(_, _, _)
RECURSIVE EpsPathsVia(_, _, _, _)
EpsPaths(m, s, t) ==
    IF s \notin Indices(m) THEN 0
    ELSE (IF s = t THEN 1 ELSE 0) + EpsPathsVia(m, s, t, 1)

EpsPathsVia(m, s, t, j) ==
    IF j > Len(m.states[s + 1].transitions) THEN 0
    ELSE (IF m.states[s + 1].transitions[j].kind = Epsilon
          THEN EpsPaths(m, m.states[s + 1].transitions[j].dest, t)
          ELSE 0)
         + EpsPathsVia(m, s, t, j + 1)

\* How often x occurs in a sequence.
Occurrences(seq, x) == Cardinality({i \in 1..Len(seq) : seq[i] = x})

\* A build call has returned.
Built == pc \notin {"NFAeBuilder", "NFABuilder"}

\* ---------------------------------------------------------------- C4
\* The outcome of build on the builder b, as the specification orders it.
ExpectedBuild(b) ==
    IF b.start = None THEN "MissingStartIndex"
    ELSE IF Len(b.states) = 0 THEN "MissingStates"
    ELSE IF \A i \in 1..Len(b.states) : ~b.states[i].finish THEN "MissingFinish"
    ELSE IF ~(b.start[1] < Len(b.states)) THEN "InvalidStartIndex"
    ELSE "none"

\* C4: NFABuilder::build and NFAeBuilder::build check (1) start set, (2) a
\* state exists, (3) a finish state exists, (4) start < number of states, in
\* this order, return the error of the first violated condition even when
\* later ones are violated too, and return Ok iff all four hold.
C4_BuildOrder ==
    Built =>
        /\ err = ExpectedBuild(builder)
        /\ (pc = "err") <=> (err # "none")
        /\ (pc # "err") <=>
              /\ builder.start # None
              /\ Len(builder.states) >= 1
              /\ \E i \in 1..Len(builder.states) : builder.states[i].finish
              /\ builder.start[1] < Len(builder.states)

\* Witness: build returned MissingFinish although the start index was out of
\* bounds as well (a later condition was violated too).
C4_Witness ==
    /\ pc = "err"
    /\ err = "MissingFinish"
    /\ builder.start[1] >= Len(builder.states)
    /\ Len(builder.states) = 2

\* ---------------------------------------------------------------- C7
\* An epsilon_closure call has returned in the current state.
ClosureReturned == pc = "nfae" /\ last = "epsilon_closure"

\* C7: on an epsilon-acyclic NFA-e, epsilon_closure(s) lists exactly the
\* states reachable from s by zero or more epsilon transitions (s included,
\* nothing reached only through a symbol transition), and nothing at all for
\* an index s that does not exist.
C7_ClosureIsEpsReach ==
    (ClosureReturned /\ EpsAcyclic(nfae)) =>
        /\ Range(closure.states) = EpsReach(nfae, closure.s)
        /\ closure.s \in Indices(nfae) => closure.s \in Range(closure.states)
        /\ closure.s \notin Indices(nfae) => closure.states = <<>>

\* Witness: a closure of two hops next to a symbol transition that is not
\* followed.
C7_Witness ==
    /\ ClosureReturned
    /\ EpsAcyclic(nfae)
    /\ Cardinality(Range(closure.states)) = 2
    /\ \E j \in TrPos(nfae, closure.s) :
          /\ nfae.states[closure.s + 1].transitions[j].kind # Epsilon
          /\ nfae.states[closure.s + 1].transitions[j].dest \in Indices(nfae)
          /\ nfae.states[closure.s + 1].transitions[j].dest \notin Range(closure.states)

\* ---------------------------------------------------------------- C8
\* C8 as stated: the length of epsilon_closure(s) is the number of distinct
\* states epsilon-reachable from s.
C8_ClosureIsASet ==
    (ClosureReturned /\ EpsAcyclic(nfae) /\ closure.s \in Indices(nfae)) =>
        Len(closure.states) = Cardinality(EpsReach(nfae, closure.s))

\* C8 amended: epsilon_closure(s) lists every state once per epsilon path
\* leading to it from s (the empty path included), so each epsilon-reachable
\* state is listed at least once, and the length equals the number of
\* distinct reachable states exactly when no state is reached along two
\* different epsilon paths.
C8_ClosureIsPathList ==
    (ClosureReturned /\ EpsAcyclic(nfae) /\ closure.s \in Indices(nfae)) =>
        /\ \A t \in Indices(nfae) :
              Occurrences(closure.states, t) = EpsPaths(nfae, closure.s, t)
        /\ \A t \in EpsReach(nfae, closure.s) : Occurrences(closure.states, t) >= 1
        /\ Len(closure.states) >= Cardinality(EpsReach(nfae, closure.s))
        /\ (Len(closure.states) = Cardinality(EpsReach(nfae, closure.s)))
              <=> \A t \in Indices(nfae) : EpsPaths(nfae, closure.s, t) <= 1

\* Witness: a state listed twice because two epsilon paths lead to it.
C8_Witness ==
    /\ ClosureReturned
    /\ EpsAcyclic(nfae)
    /\ \E t \in Indices(nfae) : Occurrences(closure.states, t) = 2

\* ------------------------------------------------- into_nfa, C1 - C3
\* into_nfa has returned an NFA for the NFA-e exactly as build returned it,
\* and that NFA-e was well formed and epsilon-acyclic.
Converted ==
    /\ pc = "nfa"
    /\ last = "into_nfa"
    /\ ops = 0
    /\ WellFormed(orig)
    /\ EpsAcyclic(orig)

\* The states of the NFA-e m reached from a state of S by one transition
\* labelled with symbol l.
SymSucc(m, S, l) ==
    {d \in Indices(m) : \E i \in S \cap Indices(m) : \E j \in TrPos(m, i) :
        /\ m.states[i + 1].transitions[j].kind = l
        /\ m.states[i + 1].transitions[j].dest = d}

\* The states where a path of the NFA-e m can end that starts in S and whose
\* non-epsilon labels spell w, epsilon transitions interleaved freely.
RECURSIVE NFAeRun(_, _, _)
NFAeRun(m, S, w) ==
    IF w = <<>> THEN EpsClosed(m, S)
    ELSE NFAeRun(m, SymSucc(m, EpsClosed(m, S), Head(w)), Tail(w))

\* The NFA-e m accepts w.
NFAeAccepts(m, w) == \E i \in NFAeRun(m, {m.start}, w) : m.states[i + 1].finish

\* NFA::traverse(w) contains a finish state.
NFAAccepts(n, w) ==
    \E k \in 1..Len(traverse(n, w)) : is_finish(n.states[traverse(n, w)[k] + 1])

\* C1: the NFA returned by into_nfa for a well-formed, epsilon-acyclic NFA-e
\* accepts exactly the symbol sequences the NFA-e accepts.
C1_SameLanguage ==
    Converted => \A w \in Words : NFAAccepts(nfa, w) <=> NFAeAccepts(orig, w)

\* C2: the start index of the NFA returned by into_nfa designates the state
\* carrying the payload of the state the NFA-e's start index designated.
C2_StartReindexed ==
    Converted =>
        /\ nfa.start \in Indices(nfa)
        /\ nfa.states[nfa.start + 1].data = orig.states[orig.start + 1].data

\* C3: every NFA obtained from NFABuilder::build or from into_nfa has at
\* least one state, start < number of states, and a finish state.
C3_NfaInvariant ==
    (pc = "nfa" /\ (last = "build" \/ Converted)) =>
        /\ Len(nfa.states) >= 1
        /\ nfa.start < Len(nfa.states)
        /\ \E i \in 1..Len(nfa.states) : nfa.states[i].finish

\* ------------------------------------------- epsilon_simplify_all, C5, C6
\* epsilon_simplify_all has returned on a well-formed, epsilon-acyclic NFA-e
\* (pre is the machine it was called on).
SimplifiedAll ==
    /\ pc = "nfae"
    /\ last = "epsilon_simplify_all"
    /\ WellFormed(pre)
    /\ EpsAcyclic(pre)

\* C5: after epsilon_simplify_all a state is finish iff some state of its
\* epsilon closure in the machine before the call was finish.
C5_FinishIffClosureFinish ==
    SimplifiedAll =>
        \A s \in Indices(pre) :
            nfae.states[s + 1].finish
                <=> \E t \in EpsReach(pre, s) : pre.states[t + 1].finish

\* Witness: a state became finish through an earlier state that had already
\* been rewritten (and had lost its epsilon transition) when it was simplified.
C5_Witness ==
    /\ SimplifiedAll
    /\ \E s \in Indices(pre) : \E t \in 0..(s - 1) : \E u \in Indices(pre) :
          /\ ~pre.states[s + 1].finish /\ ~pre.states[t + 1].finish
          /\ pre.states[u + 1].finish
          /\ t \in EpsSucc(pre, {s}) /\ u \in EpsSucc(pre, {t})
          /\ u \notin EpsSucc(pre, {s})
          /\ nfae.states[s + 1].finish

\* The (symbol, destination) pairs of the non-epsilon transitions of state i.
SymbolTransitions(m, i) ==
    {<<m.states[i + 1].transitions[j].kind, m.states[i + 1].transitions[j].dest>> :
        j \in {k \in TrPos(m, i) : m.states[i + 1].transitions[k].kind # Epsilon}}

\* C6: after epsilon_simplify_all the set of transitions of every state is
\* the union of the non-epsilon transitions, in the machine before the call,
\* of the states of its epsilon closure in that machine; no epsilon
\* transition is left.
C6_TransitionsAreClosureUnion ==
    SimplifiedAll =>
        /\ EpsilonFree(nfae)
        /\ \A s \in Indices(pre) :
              SymbolTransitions(nfae, s)
                  = UNION {SymbolTransitions(pre, t) : t \in EpsReach(pre, s)}

\* Witness: state s reaches u only through the earlier state t, which had
\* been rewritten, and had lost its epsilon transition to u, before the
\* closure of s was computed; s has the transition of u all the same.
C6_Witness ==
    /\ SimplifiedAll
    /\ \E s \in Indices(pre) : \E t \in 0..(s - 1) : \E u \in Indices(pre) :
          /\ t \in EpsSucc(pre, {s}) /\ u \in EpsSucc(pre, {t})
          /\ u \notin EpsSucc(pre, {s})
          /\ SymbolTransitions(pre, s) = {} /\ SymbolTransitions(pre, t) = {}
          /\ SymbolTransitions(pre, u) # {}
          /\ SymbolTransitions(nfae, s) = SymbolTransitions(pre, u)

\* ---------------------------------------------------------------- C9
\* Every state is the start state or the destination of some transition.
AllReferenced(m) ==
    \A i \in Indices(m) :
        \/ i = m.start
        \/ \E k \in Indices(m) : \E j \in TrPos(m, k) :
              m.states[k + 1].transitions[j].dest = i

\* C9: into_nfa on an epsilon-free NFA-e in which every state is referenced
\* returns the same states, start index, finish flags and, state by state,
\* the same list of (symbol, destination) transitions.
C9_RoundTrip ==
    (pc = "nfa" /\ last = "into_nfa" /\ ops = 0
        /\ EpsilonFree(orig) /\ AllReferenced(orig)) =>
        /\ Len(nfa.states) = Len(orig.states)
        /\ nfa.start = orig.start
        /\ \A i \in Indices(orig) :
              /\ nfa.states[i + 1].finish = orig.states[i + 1].finish
              /\ Len(nfa.states[i + 1].transitions) = Len(orig.states[i + 1].transitions)
              /\ \A j \in TrPos(orig, i) :
                    /\ nfa.states[i + 1].transitions[j].symbol
                          = orig.states[i + 1].transitions[j].kind
                    /\ nfa.states[i + 1].transitions[j].dest
                          = orig.states[i + 1].transitions[j].dest

\* --------------------------------------------------------------- C10
\* The indices remove_orphan_states is to keep: start and every destination.
Kept(m) ==
    {i \in Indices(m) :
        \/ i = m.start
        \/ \E k \in Indices(m) : \E j \in TrPos(m, k) :
              m.states[k + 1].transitions[j].dest = i}

\* The position (from 0) of the kept index i among the kept indices.
Rank(m, i) == Cardinality({j \in Kept(m) : j < i})

\* remove_orphan_states has returned on an epsilon-free, well-formed NFA-e.
Pruned ==
    /\ pc = "nfae"
    /\ last = "remove_orphan_states"
    /\ EpsilonFree(pre)
    /\ WellFormed(pre)

\* C10: remove_orphan_states keeps exactly the states that are the start
\* state or a destination, in their old order and numbered densely from 0,
\* and every surviving transition keeps its symbol and has a destination
\* below the new state count that designates the state it designated before.
C10_PruneKeepsReferenced ==
    Pruned =>
        /\ Len(nfae.states) = Cardinality(Kept(pre))
        /\ \A i \in Kept(pre) :
              LET n == nfae.states[Rank(pre, i) + 1]
                  o == pre.states[i + 1]
              IN /\ n.data = o.data
                 /\ n.finish = o.finish
                 /\ Len(n.transitions) = Len(o.transitions)
                 /\ \A j \in 1..Len(o.transitions) :
                       /\ n.transitions[j].kind = o.transitions[j].kind
                       /\ n.transitions[j].dest < Len(nfae.states)
                       /\ nfae.states[n.transitions[j].dest + 1].data
                             = pre.states[o.transitions[j].dest + 1].data
                       /\ nfae.states[n.transitions[j].dest + 1].finish
                             = pre.states[o.transitions[j].dest + 1].finish

\* Witness: a state in front was pruned, so a kept state moved and a
\* transition to it was rewritten.
C10_Witness ==
    /\ Pruned
    /\ Len(nfae.states) < Len(pre.states)
    /\ \E i \in Kept(pre) : \E j \in TrPos(pre, i) :
          /\ pre.states[i + 1].transitions[j].dest
                # nfae.states[Rank(pre, i) + 1].transitions[j].dest
          /\ Rank(pre, i) # i

\* --------------------------------------------------------------- C11
\* State i of the machine m is the destination of a transition of m.
HasIncoming(m, i) ==
    \E k \in Indices(m) : \E j \in TrPos(m, k) :
        m.states[k + 1].transitions[j].dest = i

\* The index in the machine n of the state carrying the payload of state i
\* of the machine m (payloads identify states), as a set: empty if the state
\* is not in n.
IndexIn(n, m, i) == {k \in Indices(n) : n.states[k + 1].data = m.states[i + 1].data}

\* C11 as stated: after remove_orphan_states on an epsilon-free, well-formed
\* machine, every state of the result other than the state the start index
\* designated is the destination of a transition of a state of the result.
C11_NoOrphanLeft ==
    Pruned =>
        \A k \in Indices(nfae) :
            \/ k \in IndexIn(nfae, pre, pre.start)
            \/ HasIncoming(nfae, k)

\* C11 amended: remove_orphan_states makes one pass.  It removes exactly
\* the states that, in the machine before the call, are neither the start
\* state nor the destination of any transition; a state referenced only by
\* a removed state stays, without incoming transition in the result.
C11_OnePassPruning ==
    Pruned =>
        \A i \in Indices(pre) :
            /\ Cardinality(IndexIn(nfae, pre, i)) <= 1
            /\ (IndexIn(nfae, pre, i) = {}) <=> (i # pre.start /\ ~HasIncoming(pre, i))
            /\ \A k \in IndexIn(nfae, pre, i) :
                  HasIncoming(nfae, k)
                      <=> \E h \in Indices(pre) :
                              /\ IndexIn(nfae, pre, h) # {}
                              /\ \E j \in TrPos(pre, h) :
                                    pre.states[h + 1].transitions[j].dest = i

\* Witness: a state was removed, and the state it referenced stayed although
\* nothing in the result references it and it is not the start state.
C11_Witness ==
    /\ Pruned
    /\ \E i \in Indices(pre) : \E h \in Indices(pre) :
          /\ i # pre.start
          /\ IndexIn(nfae, pre, h) = {}
          /\ \E j \in TrPos(pre, h) : pre.states[h + 1].transitions[j].dest = i
          /\ \E k \in IndexIn(nfae, pre, i) : ~HasIncoming(nfae, k)

\* --------------------------------------------------------------- C12
\* A path is named by the positions, in the transition lists, of the
\* transitions it takes.  The state where the first k steps of p lead
\* from `from` in the NFA n.
RECURSIVE StateAt(_, _, _, _)
StateAt(n, from, p, k) ==
    IF k = 0 THEN from
    ELSE n.states[StateAt(n, from, p, k - 1) + 1].transitions[p[k]].dest

\* p names a path of n from `from` that spells w: every step leaves an
\* existing state by an existing transition labelled with the next symbol
\* of w, and the path ends in an existing state.
IsPath(n, from, w, p) ==
    /\ \A k \in 1..Len(w) :
          /\ StateAt(n, from, p, k - 1) \in Indices(n)
          /\ p[k] <= Len(n.states[StateAt(n, from, p, k - 1) + 1].transitions)
          /\ n.states[StateAt(n, from, p, k - 1) + 1].transitions[p[k]].symbol = w[k]
    /\ StateAt(n, from, p, Len(w)) \in Indices(n)

\* The paths of n from `from` that spell w.
PathsSpelling(n, from, w) ==
    {p \in [1..Len(w) -> 1..(transition_count(n.states, 1) + 1)] : IsPath(n, from, w, p)}

\* p takes an earlier transition than q where they first differ.
Earlier(p, q) ==
    \E k \in 1..Len(p) : p[k] < q[k] /\ \A j \in 1..(k - 1) : p[j] = q[j]

\* The final states of the paths of n from `from` that spell w, one entry
\* per path, a path before another when it takes the earlier transition at
\* the first step where they differ.
PathEnds(n, from, w) ==
    LET paths == PathsSpelling(n, from, w) IN
    [k \in 1..Cardinality(paths) |->
        StateAt(n, from,
                CHOOSE p \in paths : Cardinality({q \in paths : Earlier(q, p)}) = k - 1,
                Len(w))]

\* A traverse_from call has returned.
Traversed == pc = "nfa" /\ last = "traverse_from"

\* C12: traverse_from(from, w) returns the final state of every path from
\* `from` whose symbols spell w, one entry per path, depth first in
\* transition insertion order; a branch without transition for the next
\* symbol, or to a state that does not exist, contributes nothing and the
\* other branches go on; it is [from] for the empty w and empty when `from`
\* does not exist.
C12_OneEntryPerPath ==
    Traversed =>
        /\ traversal.states = PathEnds(nfa, traversal.from, traversal.symbols)
        /\ (traversal.symbols = <<>> /\ traversal.from \in Indices(nfa))
              => traversal.states = <<traversal.from>>
        /\ traversal.from \notin Indices(nfa) => traversal.states = <<>>

\* Witness: the first branch reaches a state that has no transition for the
\* second symbol, a later branch goes on and yields a result.
C12_Witness ==
    /\ Traversed
    /\ Len(traversal.symbols) = 2
    /\ traversal.states # <<>>
    /\ LET first == next(nfa.states[traversal.from + 1], traversal.symbols[1]) IN
          /\ Len(first) = 2
          /\ first[1] \in Indices(nfa)
          /\ next(nfa.states[first[1] + 1], traversal.symbols[2]) = <<>>

\* --------------------------------------------------------------- C13
\* Every destination stored in the DFA d is the index of a state of d.
InRange(d) ==
    \A i \in 1..Len(d) : \A l \in DOMAIN d[i].transitions :
        d[i].transitions[l] < Len(d)

\* The state of d reached from state 0 by the first k symbols of w, when
\* every one of them has an entry where it is looked up.
RECURSIVE Reached(_, _, _)
Reached(d, w, k) ==
    IF k = 0 THEN 0 ELSE d[Reached(d, w, k - 1) + 1].transitions[w[k]]

\* Each of the first k symbols of w has an entry in the map of the state
\* reached by the symbols before it.
RECURSIVE Hit(_, _, _)
Hit(d, w, k) ==
    \/ k = 0
    \/ /\ Hit(d, w, k - 1)
       /\ w[k] \in DOMAIN d[Reached(d, w, k - 1) + 1].transitions

\* A DFA::traverse call has returned or failed.
DfaTraversed == dcall.op = "traverse"

\* C13: on a DFA whose destinations are all in range, traverse(w) starts at
\* state 0 and follows w; it returns None iff some symbol of w has no entry
\* in the map of the state reached by the symbols before it, and otherwise
\* the view of the state reached, whose value() is the payload of that
\* state; for the empty w it returns the start state.
C13_TraverseFollowsWord ==
    (DfaTraversed /\ InRange(dfa)) =>
        LET w == dresult.inputs IN
        /\ pc = "dfa"
        /\ (dresult.state = None) <=> ~Hit(dfa, w, Len(w))
        /\ Hit(dfa, w, Len(w)) =>
              /\ dresult.state = Some(Reached(dfa, w, Len(w)))
              /\ dresult.value = Some(dfa[Reached(dfa, w, Len(w)) + 1].value)
        /\ w = <<>> => dresult.state = Some(0) /\ dresult.value = Some(dfa[1].value)

\* Witness: a chain grown with the cursor, start -> 1 -> 2, traversed by
\* two symbols to its end, whose payload is returned.
C13_Witness ==
    /\ DfaTraversed
    /\ InRange(dfa)
    /\ Len(dresult.inputs) = 2
    /\ Hit(dfa, dresult.inputs, 2)
    /\ Reached(dfa, dresult.inputs, 1) = 1
    /\ dresult.state = Some(2)
    /\ dresult.value = Some(2)

\* --------------------------------------------------------------- C14
\* The calls that set a transition of the cursor's state.
SetsTransition == {"set_transition", "add_self_loop", "MutState_add_state", "extend"}

\* C14: a call that sets a transition for the pair (state, symbol) leaves
\* that pair with the single destination the call gave, whatever the pair
\* had before, and leaves the entry and the absence of an entry of every
\* other (state, symbol) pair as it was; so each pair holds the
\* destination of the most recent call that set it.
C14_LastSetWins ==
    [][(dcall'.op \in SetsTransition /\ <<dfa, dcall>>' # <<dfa, dcall>>) =>
          /\ DOMAIN dfa'[dcall'.index + 1].transitions
                = DOMAIN dfa[dcall'.index + 1].transitions \cup {dcall'.transition}
          /\ dfa'[dcall'.index + 1].transitions[dcall'.transition] = dcall'.to
          /\ \A i \in 1..Len(dfa) : \A k \in Symbols :
                (i # dcall'.index + 1 \/ k # dcall'.transition) =>
                    /\ k \in DOMAIN dfa'[i].transitions <=> k \in DOMAIN dfa[i].transitions
                    /\ k \in DOMAIN dfa[i].transitions =>
                          dfa'[i].transitions[k] = dfa[i].transitions[k]]_vars

\* Witness: set_transition replaced a different destination of the same
\* (state, symbol) pair, next to an entry of the other symbol.
C14_Witness ==
    /\ dcall.op = "set_transition"
    /\ dcall.old # None
    /\ dcall.old # Some(dcall.to)
    /\ dfa[dcall.index + 1].transitions[dcall.transition] = dcall.to
    /\ DOMAIN dfa[dcall.index + 1].transitions = Symbols

\* --------------------------------------------------------------- C15
\* The step is a call of extend.
Extended == dcall'.op = "extend" /\ <<dfa, dcall>>' # <<dfa, dcall>>

\* C15: extend(symbol, other) on the cursor at state q of a DFA of num states
\* puts every state of other at its old index plus num, with its payload
\* and with every destination shifted by num, and maps (q, symbol) to num,
\* the former start of other; following symbol and then w from q ends at
\* a state with the payload other.traverse(w) ends at, and at none iff
\* other.traverse(w) finds none; the payloads of the states that were there
\* and their transitions other than (q, symbol) are unchanged.
C15_ExtendSplices ==
    [][Extended =>
          LET num == Len(dfa)
              other == dcall'.other
              q == dcall'.index
              symbol == dcall'.transition
          IN
          /\ Len(dfa') = num + Len(other)
          /\ \A i \in 1..Len(other) :
                /\ dfa'[num + i].value = other[i].value
                /\ DOMAIN dfa'[num + i].transitions = DOMAIN other[i].transitions
                /\ \A l \in DOMAIN other[i].transitions :
                      dfa'[num + i].transitions[l] = other[i].transitions[l] + num
          /\ dfa'[q + 1].transitions[symbol] = num
          /\ \A w \in Words :
                LET inM == DFA_traverse_from(dfa', q, <<symbol>> \o w)
                    inOther == DFA_traverse(other, w)
                IN /\ ~inM.ub /\ ~inOther.ub
                   /\ (inM.state = None) <=> (inOther.state = None)
                   /\ inM.state # None =>
                         /\ inM.state[1] = inOther.state[1] + num
                         /\ get_state_value(dfa', inM.state[1])
                               = get_state_value(other, inOther.state[1])
          /\ \A i \in 1..num :
                /\ dfa'[i].value = dfa[i].value
                /\ \A k \in Symbols :
                      (i # q + 1 \/ k # symbol) =>
                          /\ k \in DOMAIN dfa'[i].transitions
                                <=> k \in DOMAIN dfa[i].transitions
                          /\ k \in DOMAIN dfa[i].transitions =>
                                dfa'[i].transitions[k] = dfa[i].transitions[k]]_vars

\* Witness: a DFA of two states, one leading to the other, was spliced in
\* behind the start state, which had a transition of its own.
C15_Witness ==
    /\ dcall.op = "extend"
    /\ Len(dcall.other) = 2
    /\ \E l \in DOMAIN dcall.other[1].transitions : dcall.other[1].transitions[l] = 1
    /\ Len(dfa) = 3
    /\ DOMAIN dfa[1].transitions = Symbols
    /\ dfa[1].transitions[dcall.transition] = 1
    /\ \E l \in DOMAIN dfa[2].transitions : dfa[2].transitions[l] = 2

\* --------------------------------------------------------------- C20
\* C20: in every DFA the public construction operations lead to, every
\* stored destination is less than the number of states, traverse never
\* reads the transitions of a state outside the vector, and value() on the
\* state traverse returns never fails.
C20_IndexSafety ==
    /\ InRange(dfa)
    /\ ~dresult.ub
    /\ pc \notin {"panic", "undefined"}

\* --------------------------------------------------------------- C16
\* Some state on an epsilon cycle (an epsilon self-loop included) is
\* reachable from s by zero or more epsilon transitions.
CycleReachable(m, s) ==
    \E t \in EpsReach(m, s) : t \in EpsClosed(m, EpsSucc(m, {t}))

\* C16: epsilon_closure(s) returns iff no epsilon cycle is reachable from s
\* by epsilon transitions.  On an epsilon-acyclic machine it returns, no
\* existing state being entered deeper than the number of states; with a
\* reachable cycle it recurses without end.  epsilon_simplify_all and
\* into_nfa return iff the epsilon graph of the machine has no cycle.
C16_ClosureEndsIffNoCycle ==
    /\ pc = "nfae" =>
          \A s \in 0..Len(nfae.states) :
              overflows(epsilon_closure(nfae.states, s)) <=> CycleReachable(nfae, s)
    /\ ClosureReturned => ~CycleReachable(nfae, closure.s)
    /\ (pc = "overflow" /\ last = "epsilon_closure") => ~EpsAcyclic(pre)
    /\ last \in {"epsilon_simplify_all", "into_nfa"} =>
          (pc = "overflow" <=> ~EpsAcyclic(pre))

\* Witness: into_nfa did not return on a well-formed machine whose start
\* state 0 reaches no cycle: states 1 and 2 form an epsilon cycle of two
\* transitions.
C16_Witness ==
    /\ pc = "overflow"
    /\ last = "into_nfa"
    /\ WellFormed(pre)
    /\ pre.start = 0
    /\ ~CycleReachable(pre, 0)
    /\ CycleReachable(pre, 1)
    /\ \A i \in Indices(pre) : i \notin EpsSucc(pre, {i})

\* --------------------------------------------------------------- C17
\* remove_orphan_states has returned or failed on an epsilon-free NFA-e.
PruneCalled == last = "remove_orphan_states" /\ EpsilonFree(pre)

\* Some transition of state i of the machine m has a destination that is no
\* state index of m.
Dangles(m, i) ==
    \E j \in TrPos(m, i) : m.states[i + 1].transitions[j].dest \notin Indices(m)

\* C17 as stated: whenever some transition of some state of an epsilon-free
\* NFA-e has an invalid destination, remove_orphan_states panics.
C17_PanicsOnAnyInvalid ==
    (PruneCalled /\ ~WellFormed(pre)) => pc = "panic"

\* C17 amended: on an epsilon-free NFA-e remove_orphan_states panics iff
\* a state it keeps (the start state or the destination of a transition)
\* has a transition with an invalid destination; an invalid destination on
\* a state it removes goes with that state, the call returns and every
\* destination of the resulting machine is valid.
C17_PanicsIffKeptDangles ==
    PruneCalled =>
        /\ pc \in {"nfae", "panic"}
        /\ (pc = "panic") <=> \E i \in Kept(pre) : Dangles(pre, i)
        /\ pc = "nfae" => WellFormed(nfae)

\* Witness: the call returned although a state, removed by it, had a
\* transition with an invalid destination.
C17_Witness ==
    /\ PruneCalled
    /\ pc = "nfae"
    /\ \E i \in Indices(pre) : Dangles(pre, i) /\ i \notin Kept(pre)
    /\ Len(nfae.states) < Len(pre.states)

\* --------------------------------------------------------------- C18
\* C18: a successful build of either builder yields a machine whose states
\* are the arguments of the add_state calls in call order and whose start
\* index is the argument of the last set_start call, whatever the order of
\* the calls and whether or not the states a transition or the start index
\* refers to existed when it was given.
C18_BuildKeepsCalls ==
    /\ (pc = "nfae" /\ last = "build") =>
          /\ nfae.states = asked.states
          /\ asked.start = Some(nfae.start)
    /\ (pc = "nfa" /\ last = "build") =>
          /\ nfa.states = asked.states
          /\ asked.start = Some(nfa.start)

\* Witness: an NFA-e of three states built with the last state as start,
\* the first state referring to the last one, which was added after it.
C18_Witness ==
    /\ pc = "nfae"
    /\ last = "build"
    /\ Len(nfae.states) = 3
    /\ nfae.start = 2
    /\ \E j \in TrPos(nfae, 0) : nfae.states[1].transitions[j].dest = 2
    /\ asked.states[3].data = 2

\* --------------------------------------------------------------- C19
\* into_nfa was called on the NFA-e exactly as build returned it, and that
\* NFA-e was well formed and epsilon-acyclic.
IntoNfaCalled ==
    /\ last = "into_nfa"
    /\ ops = 0
    /\ WellFormed(orig)
    /\ EpsAcyclic(orig)

\* C19: into_nfa on a built NFA-e with valid destinations and no epsilon
\* cycle returns an NFA: no epsilon transition is left when
\* remove_orphan_states runs, every destination it rewrites has an entry in
\* its index map, and every remaining state converts.
C19_IntoNfaReturns ==
    IntoNfaCalled =>
        /\ pc = "nfa"
        /\ epsilon_simplify_all(orig.states).status = "ok"
        /\ EpsilonFree([states |-> epsilon_simplify_all(orig.states).states,
                        start |-> orig.start])
        /\ \A i \in Indices(nfa) : \A j \in TrPos(nfa, i) :
              nfa.states[i + 1].transitions[j].dest \in Indices(nfa)

\* Witness: the NFA-e had an epsilon transition, a state was removed and a
\* destination was rewritten to a lower index.
C19_Witness ==
    /\ IntoNfaCalled
    /\ pc = "nfa"
    /\ ~EpsilonFree(orig)
    /\ Len(nfa.states) = 2
    /\ Len(orig.states) = 3
    /\ \E i \in Indices(nfa) : \E j \in TrPos(nfa, i) :
          /\ nfa.states[i + 1].transitions[j].dest = 1
          /\ nfa.states[2].data = 2

\* --------------------------------------------------------------- C21
\* The transitions of state i of the machine m, as a set.
TransitionSet(m, i) == {m.states[i + 1].transitions[j] : j \in TrPos(m, i)}

\* epsilon_simplify has been applied once to every state index of the
\* NFA-e as built, which was well formed and epsilon-acyclic.
SimplifiedEach ==
    /\ pc = "nfae"
    /\ last = "epsilon_simplify"
    /\ Len(simplified) = Len(orig.states)
    /\ Range(simplified) = Indices(orig)
    /\ WellFormed(orig)
    /\ EpsAcyclic(orig)

\* The position of the index i in the order of the calls.
Turn(i) == CHOOSE k \in 1..Len(simplified) : simplified[k] = i

\* C21: on a well-formed, epsilon-acyclic NFA-e, applying epsilon_simplify
\* once to every state index, in any order, gives every state the finish
\* flag and the set of transitions that epsilon_simplify_all gives it.
C21_OrderIndependent ==
    SimplifiedEach =>
        LET all == [states |-> epsilon_simplify_all(orig.states).states,
                    start |-> orig.start]
        IN /\ Len(nfae.states) = Len(all.states)
           /\ \A i \in Indices(orig) :
                 /\ nfae.states[i + 1].finish = all.states[i + 1].finish
                 /\ TransitionSet(nfae, i) = TransitionSet(all, i)

\* Witness: state s reaches u through t by two epsilon transitions, u has
\* a symbol transition and is finish, and s and t were simplified in the
\* order opposite to that of their indices.
C21_Witness ==
    /\ SimplifiedEach
    /\ \E s \in Indices(orig) : \E t \in Indices(orig) : \E u \in Indices(orig) :
          /\ t \in EpsSucc(orig, {s}) /\ u \in EpsSucc(orig, {t})
          /\ u \notin EpsSucc(orig, {s})
          /\ SymbolTransitions(orig, s) = {} /\ SymbolTransitions(orig, t) = {}
          /\ SymbolTransitions(orig, u) # {}
          /\ SymbolTransitions(nfae, s) = SymbolTransitions(orig, u)
          /\ (s < t) # (Turn(s) < Turn(t))

\* --------------------------------------------------------------- C22
\* An epsilon_simplify call has returned; pre is the machine before it.
SimplifiedOne == pc = "nfae" /\ last = "epsilon_simplify" /\ simplified # <<>>

\* C22: epsilon_simplify(s) leaves the number of states, the start index
\* and every payload as they were, and changes nothing of any state other
\* than s; when s is no state index the machine is unchanged.
C22_SimplifyFrame ==
    SimplifiedOne =>
        LET s == simplified[Len(simplified)] IN
        /\ Len(nfae.states) = Len(pre.states)
        /\ nfae.start = pre.start
        /\ \A i \in Indices(pre) :
              /\ nfae.states[i + 1].data = pre.states[i + 1].data
              /\ i # s => nfae.states[i + 1] = pre.states[i + 1]
        /\ s \notin Indices(pre) => nfae = pre

\* Witness: state s absorbed a symbol transition and the finish flag of
\* another state, which still has them.
C22_Witness ==
    /\ SimplifiedOne
    /\ \E t \in Indices(pre) :
          LET s == simplified[Len(simplified)] IN
          /\ s \in Indices(pre)
          /\ t # s
          /\ t \in EpsSucc(pre, {s})
          /\ SymbolTransitions(pre, t) # {}
          /\ pre.states[t + 1].finish /\ ~pre.states[s + 1].finish
          /\ nfae.states[s + 1].finish
          /\ SymbolTransitions(nfae, s) = SymbolTransitions(pre, t)
          /\ nfae.states[t + 1] = pre.states[t + 1]

====
